---- MODULE Spec2Model ----
(***************************************************************************)
(* Transform-domain audio steganography: the three strategies             *)
(* DFTSteganographyFloat32, DCTSteganographyFloat32 and                    *)
(* DWTSteganographyFloat32, the MessageProcessor codec and the             *)
(* AudioReader they read and save through.                                 *)
(*                                                                         *)
(* Conventions of the model                                                *)
(*  - a bit string (a Python str of '0'/'1') is a sequence over {0,1};     *)
(*    a text is a sequence of code points;                                 *)
(*  - a real number is a fraction num/den with one denominator per audio   *)
(*    buffer; arithmetic is exact (float32 rounding is not modelled);      *)
(*  - a channel is held in the transform domain of the strategy that       *)
(*    works on it: one coefficient per slot (DFT bin start_idx + i*step,   *)
(*    DCT block i at target_coef, DWT subband position i*step), for the    *)
(*    slots i < capacity, together with the channel length and the         *)
(*    time-domain peaks that the normalisations of the code depend on.     *)
(***************************************************************************)
EXTENDS Integers, Sequences, FiniteSets, TLC

(***************************************************************************)
(* Bounds of the model.                                                    *)
(***************************************************************************)
\* calls of embed and extract in one session
MaxOps == 3

\* successive embeds into the output of the previous one
MaxGen == 2

\* length of the bit strings handed to the codec
MaxBits == 10

\* length of the texts handed to the codec
MaxText == 2

\* length of the bits before and between the markers of a scanned string
MaxPad == 2

(***************************************************************************)
(* Small arithmetic helpers.                                               *)
(***************************************************************************)
Abs(x) == IF x < 0 THEN 0 - x ELSE x

Max2(x, y) == IF x >= y THEN x ELSE y

\* Python floor division a // b for b > 0 (TLA+ \div already floors).
FloorDiv(a, b) == a \div b

(***************************************************************************)
(* MessageProcessor                                                        *)
(***************************************************************************)
RECURSIVE Bin(_)
\* the binary digits of n without leading zeros, as format(n, 'b')
Bin(n) == IF n < 2 THEN <<n>> ELSE Bin(n \div 2) \o <<n % 2>>

Zeros(k) == [i \in 1..k |-> 0]

\* variant: format(ord(c), 'b'), no padding to 8 digits
FormatB(c) == Bin(c)

\* format(ord(c), '08b'): at least 8 digits, more when the code point needs them
Format08b(c) == LET b == Bin(c) IN IF Len(b) >= 8 THEN b ELSE Zeros(8 - Len(b)) \o b

RECURSIVE text_to_binary(_)
text_to_binary(text) ==
    IF text = <<>> THEN <<>>
    ELSE Format08b(Head(text)) \o text_to_binary(Tail(text))

\* ord(i) and format(.., '08b') are defined for every character of a str:
\* text_to_binary has no raise and no call that fails on a text
TextToBinaryRaises(text) == \E i \in 1..Len(text) : text[i] \notin Nat

RECURSIVE BitsToInt(_)
\* int(s, 2)
BitsToInt(b) == IF b = <<>> THEN 0 ELSE 2 * BitsToInt(SubSeq(b, 1, Len(b) - 1)) + b[Len(b)]

\* variant: the remainder is not cut off
TrimNone(binary) == binary

\* binary[:-(len(binary) % 8)] when the length is not a multiple of 8
TrimToBytes(binary) ==
    IF Len(binary) % 8 # 0 THEN SubSeq(binary, 1, Len(binary) - (Len(binary) % 8))
    ELSE binary

Min2(x, y) == IF x <= y THEN x ELSE y

\* chr(int(binary[i:i + 8], 2)) for i in range(0, len(binary), 8)
binary_to_text(binary) ==
    LET b == TrimToBytes(binary)
    IN  [k \in 1..((Len(b) + 7) \div 8) |->
            BitsToInt(SubSeq(b, 8 * (k - 1) + 1, Min2(8 * (k - 1) + 8, Len(b))))]

(***************************************************************************)
(* The end marker and the suffix test of the extraction loops.             *)
(***************************************************************************)
\* variant: a marker of one byte, '11111110'
END_MARKER_BYTE == <<1,1,1,1,1,1,1,0>>

\* variant: the last two characters of the marker interchanged
END_MARKER_SWAPPED == <<1,1,1,1,1,1,1,1,1,1,1,1,1,1,0,1>>

END_MARKER == <<1,1,1,1,1,1,1,1,1,1,1,1,1,1,1,0>>

endswith(s, suffix) ==
    /\ Len(s) >= Len(suffix)
    /\ SubSeq(s, Len(s) - Len(suffix) + 1, Len(s)) = suffix

\* s[:-len(END_MARKER)]
StripMarker(s) == SubSeq(s, 1, Len(s) - Len(END_MARKER))

\* The extraction loop shared by the three strategies: bits are appended in
\* slot order; the loop breaks at the first slot after which the accumulated
\* string ends with the marker, and the marker is stripped.
\* Result: the bit string after the loop, the bits read (marker included),
\* the index of the last slot read (0-based, -1 when none was read) and
\* whether the break was taken.
RECURSIVE ScanFrom(_, _, _)
ScanFrom(slotBits, i, acc) ==
    IF i > Len(slotBits) THEN [bits |-> acc, raw |-> acc, last |-> i - 2, found |-> FALSE]
    ELSE LET acc2 == Append(acc, slotBits[i])
         IN  IF endswith(acc2, END_MARKER)
             THEN [bits |-> StripMarker(acc2), raw |-> acc2, last |-> i - 1, found |-> TRUE]
             ELSE ScanFrom(slotBits, i + 1, acc2)

Scan(slotBits) == ScanFrom(slotBits, 1, <<>>)

\* variant: str.rfind, the last occurrence
rfind(s, sub) ==
    LET hits == {i \in 0..(Len(s) - Len(sub)) : SubSeq(s, i + 1, i + Len(sub)) = sub}
    IN  IF hits = {} THEN -1 ELSE CHOOSE i \in hits : \A j \in hits : i >= j

\* str.find: the lowest index at which sub occurs in s, -1 when it does not
find(s, sub) ==
    LET hits == {i \in 0..(Len(s) - Len(sub)) : SubSeq(s, i + 1, i + Len(sub)) = sub}
    IN  IF hits = {} THEN -1 ELSE CHOOSE i \in hits : \A j \in hits : i <= j

\* process_extracted_binary: binary_message[:marker_pos] when the marker occurs
CutAtMarker(binary_message) ==
    LET marker_pos == find(binary_message, END_MARKER)
    IN  IF marker_pos # -1 THEN SubSeq(binary_message, 1, marker_pos) ELSE binary_message

\* binary_message[:-remainder] when the length is not a multiple of 8
CutRemainder(binary_message) ==
    LET remainder == Len(binary_message) % 8
    IN  IF remainder # 0 THEN SubSeq(binary_message, 1, Len(binary_message) - remainder)
        ELSE binary_message

process_extracted_binary(binary_message) ==
    binary_to_text(CutRemainder(CutAtMarker(binary_message)))

\* SteganographyBase.prepare_message
prepare_message(message, with_marker) ==
    LET binary_message == text_to_binary(message)
    IN  IF with_marker THEN binary_message \o END_MARKER ELSE binary_message

(***************************************************************************)
(* Exact fractions n/d, d > 0, kept in lowest terms.                       *)
(***************************************************************************)
RECURSIVE Gcd(_, _)
Gcd(x, y) == IF y = 0 THEN x ELSE Gcd(y, x % y)

Frac(n, d) == LET g == Gcd(Abs(n), d) IN [n |-> n \div g, d |-> d \div g]

FZero == Frac(0, 1)

FOne == Frac(1, 1)

FAdd(x, y) == Frac(x.n * y.d + y.n * x.d, x.d * y.d)

FSub(x, y) == Frac(x.n * y.d - y.n * x.d, x.d * y.d)

FMul(x, y) == Frac(x.n * y.n, x.d * y.d)

\* x / y for y > 0
FDiv(x, y) == Frac(x.n * y.d, x.d * y.n)

FAbs(x) == [n |-> Abs(x.n), d |-> x.d]

\* x > y
FGt(x, y) == x.n * y.d > y.n * x.d

\* x >= y
FGe(x, y) == x.n * y.d >= y.n * x.d

FMax(x, y) == IF FGe(x, y) THEN x ELSE y

FMin(x, y) == IF FGt(x, y) THEN y ELSE x

\* np.floor
FFloor(x) == Frac(x.n \div x.d, 1)

RECURSIVE FSeqMaxAbs(_)
\* np.max(np.abs(s)) of a sequence of fractions (0 for the empty sequence)
FSeqMaxAbs(s) == IF s = <<>> THEN FZero ELSE FMax(FAbs(Head(s)), FSeqMaxAbs(Tail(s)))

FSeqDiv(s, y) == [i \in 1..Len(s) |-> FDiv(s[i], y)]

(***************************************************************************)
(* Values returned by extract (Python strings):                            *)
(*   a decoded text, the string "Не вдалося вилучити повідомлення"         *)
(*   (NoMessage) or a string starting with "Помилка декодування"           *)
(*   (DecodeError).                                                        *)
(***************************************************************************)
Text(t) == [kind |-> "text", text |-> t]

NoMessage == [kind |-> "NoMessage", text |-> <<>>]

\* the value None
None == [kind |-> "None", text |-> <<>>]

DecodeError == [kind |-> "DecodeError", text |-> <<>>]

\* binary_to_text is applied to strings of '0'/'1' only: int(.., 2) and chr of
\* a value below 256 do not fail, so the except branches are never entered.
BinaryToTextRaises(binary) == \E i \in 1..Len(binary) : binary[i] \notin {0, 1}

NoAudio == [len |-> -1]

(***************************************************************************)
(* MessageProcessor.calculate_ber                                          *)
(***************************************************************************)
\* "Не вдалося вилучити повідомлення" in extracted_message
ContainsSentinel(extracted_message) == extracted_message.kind = "NoMessage"

\* s[:n]
Prefix(s, n) == SubSeq(s, 1, Min2(n, Len(s)))

\* all(c in '01' for c in extracted_message)
AllBinaryChars(text) == \A i \in 1..Len(text) : text[i] \in {48, 49}

\* difflib.SequenceMatcher(None, a, b).ratio() where a or b is empty (the
\* only case in which the try block of calculate_ber fails): no character
\* matches, and the ratio of two empty strings is 1.0
SequenceMatcherRatio(a, b) == IF Len(a) + Len(b) = 0 THEN FOne ELSE FZero

\* extracted_binary: the extracted message itself when it consists of the
\* characters '0' and '1', its encoding otherwise
ExtractedBinary(extracted_message, max_len) ==
    IF AllBinaryChars(extracted_message)
    THEN Prefix([i \in 1..Len(extracted_message) |-> extracted_message[i] - 48], max_len)
    ELSE Prefix(text_to_binary(extracted_message), max_len)

calculate_ber(original_message, extracted_message) ==
    IF extracted_message = None \/ ContainsSentinel(extracted_message) THEN FOne
    ELSE LET max_len == Min2(Len(text_to_binary(original_message)),
                             Len(extracted_message.text) * 8)
             original_binary == Prefix(text_to_binary(original_message), max_len)
             extracted_binary == ExtractedBinary(extracted_message.text, max_len)
             pairs == 1..Min2(Len(original_binary), Len(extracted_binary))
             errors == Cardinality({i \in pairs : original_binary[i] # extracted_binary[i]})
         IN  IF Len(original_binary) = 0
             THEN \* ZeroDivisionError, caught by the bare except
                  FSub(FOne, SequenceMatcherRatio(original_message, extracted_message.text))
             ELSE Frac(errors, Len(original_binary))

(***************************************************************************)
(* AudioReader.save_audio: the buffer is divided by its peak when the peak *)
(* over all channels exceeds 1.0, then written.  A NaN peak compares       *)
(* false and the buffer is written as it is.                               *)
(***************************************************************************)
OverallPeak(a) == FMax(a.pk0, a.pk1)

ScaleAudio(a, s) ==
    [a EXCEPT !.c = FSeqDiv(a.c, s), !.pk0 = FDiv(a.pk0, s), !.pk1 = FDiv(a.pk1, s),
              !.rpk = FDiv(a.rpk, s), !.rest = FDiv(a.rest, s), !.a = FSeqDiv(a.a, s), !.b = FSeqDiv(a.b, s),
              !.amp = FDiv(a.amp, s), !.other = FSeqDiv(a.other, s)]

save_audio(a) ==
    IF ~a.nan /\ FGt(OverallPeak(a), FOne) THEN ScaleAudio(a, OverallPeak(a)) ELSE a

(***************************************************************************)
(* An audio buffer as AudioReader.read_audio returns it.                   *)
(*   len   samples per channel                                             *)
(*   ndim  1 (mono) or 2 (several channels, channel 0 is worked on)        *)
(*   nan   channel 0 holds NaN samples                                     *)
(*   c     the coefficient of each slot of channel 0 (bin magnitude for    *)
(*         DFT, block coefficient for DCT, subband coefficient for DWT)    *)
(*   pk0   peak |sample| of channel 0;  pk1  peak of the other channels    *)
(*   other the extreme samples of the other channels (empty for mono)      *)
(*   rpk   DFT, DCT: peak of channel 0 after the slots of a frame are      *)
(*         overwritten and the inverse transform is taken (for DFT         *)
(*         relative to the channel normalised to peak 1)                   *)
(*   amp   DFT: the largest bin magnitude of the spectrum                  *)
(*   a, b  DWT: the sample value on the first and on the second half of    *)
(*         the 16 samples under each slot coefficient                      *)
(*   rest  DWT: peak of the samples of channel 0 under no slot;            *)
(*         DCT: the sample value after the last full block                 *)
(***************************************************************************)
Audio(len, ndim, c, pk0, pk1, rpk, amp, a, b, rest) ==
    [len |-> len, ndim |-> ndim, nan |-> FALSE, c |-> c, pk0 |-> pk0, pk1 |-> pk1,
     rpk |-> rpk, amp |-> amp, a |-> a, b |-> b, rest |-> rest,
     other |-> IF ndim = 2 THEN <<pk1, Frac(0 - pk1.n, 2 * pk1.d)>> ELSE <<>>]

\* variant: modified_audio[:] = modified_channel[:, None], the channel is
\* written to every column
WithChannel0Broadcast(audio_data, modified_channel) ==
    IF audio_data.ndim = 2
    THEN [modified_channel EXCEPT
             !.other = [i \in 1..Len(audio_data.other) |-> modified_channel.pk0],
             !.pk1 = modified_channel.pk0]
    ELSE modified_channel

\* modified_audio = audio_data.copy(); modified_audio[:, 0] = modified_channel
\* for two dimensions, modified_audio = modified_channel otherwise
WithChannel0(audio_data, modified_channel) ==
    IF audio_data.ndim = 2
    THEN [modified_channel EXCEPT !.other = audio_data.other, !.pk1 = audio_data.pk1]
    ELSE modified_channel

\* variant: the working channel is a view of audio_data (astype(copy=False),
\* no .copy()), so what is done to it is done to audio_data
AfterAlias(audio_data, working) == working

\* audio_data after the working copy of its channel 0 (astype / copy) was
\* changed: the copy shares no memory with audio_data
AfterCopy(audio_data, working) == audio_data

\* variant: embed keeps the amplitude of the bit written last in
\* self.bit1_value (the last bit of a frame is the 0 that closes the marker)
SelfAfterCallTuned(self, op) ==
    IF op = "embed" /\ "bit1_value" \in DOMAIN self
    THEN [self EXCEPT !.bit1_value = self.bit0_value]
    ELSE self

\* the fields of the strategy object after a call of embed or extract: the
\* methods assign no attribute of self
SelfAfterCall(self, op) == self

(***************************************************************************)
(* DCTSteganographyFloat32                                                 *)
(***************************************************************************)
DCTInit ==
    [block_size |-> 1024, target_coef |-> 5,
     bit1_value |-> Frac(1, 10), bit0_value |-> Frac(-1, 10), threshold |-> FZero]

\* the slot of bit i in embed: block start i * block_size, coefficient target_coef
DCTEmbedSlot(self, i) == <<i * self.block_size, self.target_coef>>

\* the slot of bit i in extract
DCTExtractSlot(self, i) == <<i * self.block_size, self.target_coef>>

\* variant: the frame is padded with '0' up to the number of blocks
DCTWritePadded(self, c, binary_message, num_blocks) ==
    [k \in 1..Len(c) |->
        IF k <= Len(binary_message) /\ binary_message[k] = 1 THEN self.bit1_value
        ELSE self.bit0_value]

\* the block loop of embed: block i (0-based) receives bit i of the frame;
\* the loop leaves when i >= num_blocks
DCTWrite(self, c, binary_message, num_blocks) ==
    [k \in 1..Len(c) |->
        IF k <= Len(binary_message) /\ ~(k - 1 >= num_blocks)
        THEN IF binary_message[k] = 1 THEN self.bit1_value ELSE self.bit0_value
        ELSE c[k]]

\* if len(binary_message) > num_blocks: raise ValueError
DCTTooLarge(binary_message, num_blocks) == Len(binary_message) > num_blocks

DCTEmbed(self, audio_data, message) ==
    LET binary_message == text_to_binary(message) \o END_MARKER
        num_blocks == audio_data.len \div self.block_size
    IN  IF DCTTooLarge(binary_message, num_blocks)
        THEN [exc |-> "ValueError", orig |-> AfterCopy(audio_data, audio_data), modified |-> NoAudio,
              saved |-> NoAudio, slots |-> <<>>, broke |-> FALSE,
              bins |-> <<>>, mirrors |-> <<>>]
        ELSE LET modified_channel ==
                     [audio_data EXCEPT
                         !.c = DCTWrite(self, audio_data.c, binary_message, num_blocks),
                         !.pk0 = audio_data.rpk]
                 modified_audio == WithChannel0(audio_data, modified_channel)
                 written == Min2(Len(binary_message), num_blocks)
             IN  [exc |-> "none", orig |-> AfterCopy(audio_data, modified_audio),
                  modified |-> modified_audio,
                  saved |-> save_audio(modified_audio),
                  slots |-> [k \in 1..written |-> DCTEmbedSlot(self, k - 1)],
                  broke |-> written < Len(binary_message),
                  bins |-> <<>>, mirrors |-> <<>>]

\* the bit read from each block: coefficient > threshold
DCTSlotBits(self, audio_data) ==
    LET num_blocks == audio_data.len \div self.block_size
    IN  [k \in 1..num_blocks |-> IF FGt(audio_data.c[k], self.threshold) THEN 1 ELSE 0]

DCTExtract(self, audio_data) ==
    LET r == Scan(DCTSlotBits(self, audio_data))
        slots == [k \in 1..(r.last + 1) |-> DCTExtractSlot(self, k - 1)]
    IN  IF ~(Len(r.bits) > 0)
        THEN [exc |-> "none", value |-> NoMessage, scan |-> r, slots |-> slots]
        ELSE IF BinaryToTextRaises(r.bits)
             THEN [exc |-> "none", value |-> DecodeError, scan |-> r, slots |-> slots]
             ELSE [exc |-> "none", value |-> Text(binary_to_text(r.bits)), scan |-> r,
                   slots |-> slots]

(***************************************************************************)
(* DFTSteganographyFloat32                                                 *)
(***************************************************************************)
DFTInit ==
    [start_idx |-> 2000, step |-> 2,
     bit1_value |-> Frac(1, 100), bit0_value |-> Frac(1, 1000), threshold |-> Frac(1, 200)]

\* max_bits = (len(channel_1) // 2 - self.start_idx) // self.step  (may be negative)
DFTMaxBits(self, audio_data) == FloorDiv((audio_data.len \div 2) - self.start_idx, self.step)

\* channel_1 /= np.max(np.abs(channel_1)): a silent or NaN channel becomes NaN
DFTNormalise(audio_data) ==
    IF audio_data.nan \/ audio_data.pk0 = FZero
    THEN [audio_data EXCEPT !.nan = TRUE]
    ELSE [audio_data EXCEPT !.c = FSeqDiv(audio_data.c, audio_data.pk0),
                            !.amp = FDiv(audio_data.amp, audio_data.pk0),
                            !.pk0 = FOne]

\* the slot of bit i in embed: idx = self.start_idx + i * self.step
DFTEmbedSlot(self, i) == self.start_idx + i * self.step

\* variant: the bins are read one step further on
DFTExtractSlotShifted(self, i) == self.start_idx + (i + 1) * self.step

\* the slot of bit i in extract
DFTExtractSlot(self, i) == self.start_idx + i * self.step

\* amp = min(bit value, max_amp * 0.1)
DFTAmp(self, bit, max_amp) ==
    FMin(IF bit = 1 THEN self.bit1_value ELSE self.bit0_value, FDiv(max_amp, Frac(10, 1)))

\* the bin written for a bit: channel_dft[idx] = amp * np.exp(1j * phase) with
\* amp = min(amp, max_amp * 0.1).  On a NaN spectrum max_amp is NaN, min()
\* keeps its first argument, the phase is NaN and the bin written is NaN
DFTWrittenBin(self, ch, bit) ==
    [nan |-> ch.nan,
     amp |-> IF ch.nan THEN (IF bit = 1 THEN self.bit1_value ELSE self.bit0_value)
             ELSE DFTAmp(self, bit, ch.amp)]

\* variant: the conjugate is written at idx, the sign of the index lost
DFTMirrorSlotSame(self, ch, i) == DFTEmbedSlot(self, i)

\* channel_dft[-idx] = np.conj(channel_dft[idx]): index -idx is len - idx
DFTMirrorSlot(self, ch, i) ==
    LET idx == DFTEmbedSlot(self, i)
    IN  IF idx = 0 THEN 0 ELSE ch.len - idx

\* the embedding loop: bin start_idx + i*step receives bit i; the loop leaves
\* when the bin index reaches len // 2
DFTWrite(self, ch, binary_message) ==
    [k \in 1..Len(ch.c) |->
        IF k <= Len(binary_message)
           /\ ~(DFTEmbedSlot(self, k - 1) >= ch.len \div 2)
        THEN DFTAmp(self, binary_message[k], ch.amp)
        ELSE ch.c[k]]

\* if max_val > 1.0: modified_channel /= max_val
DFTRenormalise(ch) ==
    IF ~ch.nan /\ FGt(ch.rpk, FOne)
    THEN [ch EXCEPT !.c = FSeqDiv(ch.c, ch.rpk), !.amp = FDiv(ch.amp, ch.rpk),
                    !.pk0 = FOne, !.rpk = FOne]
    ELSE [ch EXCEPT !.pk0 = ch.rpk, !.rpk = FOne]

\* variant: a frame one bit longer than the capacity is let through
DFTTooLargeByTwo(binary_message, max_bits) == Len(binary_message) > max_bits + 1

\* variant: the frame is refused already when it fills the capacity exactly
DFTTooLargeGe(binary_message, max_bits) == Len(binary_message) >= max_bits

\* if len(binary_message) > max_bits: raise ValueError
DFTTooLarge(binary_message, max_bits) == Len(binary_message) > max_bits

DFTEmbed(self, audio_data, message) ==
    LET channel_1 == DFTNormalise(audio_data)
        binary_message == text_to_binary(message) \o END_MARKER
        max_bits == DFTMaxBits(self, audio_data)
    IN  IF DFTTooLarge(binary_message, max_bits)
        THEN [exc |-> "ValueError", orig |-> AfterCopy(audio_data, channel_1), modified |-> NoAudio,
              saved |-> NoAudio, slots |-> <<>>, broke |-> FALSE,
              bins |-> <<>>, mirrors |-> <<>>]
        ELSE LET channel_dft == [channel_1 EXCEPT !.c = DFTWrite(self, channel_1, binary_message)]
                 modified_channel == DFTRenormalise(channel_dft)
                 modified_audio == WithChannel0(audio_data, modified_channel)
                 written == Cardinality({k \in 1..Len(binary_message) :
                                           DFTEmbedSlot(self, k - 1) < audio_data.len \div 2})
             IN  [exc |-> "none", orig |-> AfterCopy(audio_data, modified_audio),
                  modified |-> modified_audio,
                  saved |-> save_audio(modified_audio),
                  slots |-> [k \in 1..written |-> DFTEmbedSlot(self, k - 1)],
                  broke |-> written < Len(binary_message),
                  bins |-> [k \in 1..written |-> DFTWrittenBin(self, channel_1, binary_message[k])],
                  mirrors |-> [k \in 1..written |-> DFTMirrorSlot(self, channel_1, k - 1)]]

\* variant: amplitude >= self.threshold
DFTBitGe(self, amplitude) == IF FGe(amplitude, self.threshold) THEN 1 ELSE 0

\* bit = '1' if amplitude > self.threshold else '0'
DFTBit(self, amplitude) == IF FGt(amplitude, self.threshold) THEN 1 ELSE 0

\* the bit extract reads from a bin as embed wrote it: the magnitude of a NaN
\* bin is NaN, which compares false
DFTBinBit(self, bin) == IF bin.nan THEN 0 ELSE DFTBit(self, bin.amp)

\* the bit read from each bin (a NaN magnitude compares false)
DFTSlotBits(self, audio_data) ==
    LET max_bits == DFTMaxBits(self, audio_data)
    IN  [k \in 1..max_bits |->
            IF audio_data.nan THEN 0 ELSE DFTBit(self, audio_data.c[k])]

\* the diagnostic loop reads channel_dft[start_idx + i*step] for i in range(10)
\* without a bounds test
DFTDebugIndexError(self, audio_data) == self.start_idx + 9 * self.step >= audio_data.len

DFTExtract(self, audio_data) ==
    LET r == Scan(DFTSlotBits(self, audio_data))
        slots == [k \in 1..(r.last + 1) |-> DFTExtractSlot(self, k - 1)]
    IN  IF DFTDebugIndexError(self, audio_data)
        THEN [exc |-> "IndexError", value |-> NoMessage, scan |-> r, slots |-> <<>>]
        ELSE IF BinaryToTextRaises(r.bits)
             THEN [exc |-> "none", value |-> DecodeError, scan |-> r, slots |-> slots]
             ELSE [exc |-> "none", value |-> Text(binary_to_text(r.bits)), scan |-> r,
                   slots |-> slots]

(***************************************************************************)
(* DWTSteganographyFloat32                                                 *)
(* wavelet 'db1' (Haar), level 5, coeffs[2] = the level-4 detail band:     *)
(* coefficient k is (sum of samples 16k..16k+7 - sum of samples            *)
(* 16k+8..16k+15) / 4, and adding d to it adds d/4 to the first eight of   *)
(* those samples and subtracts d/4 from the last eight.                    *)
(***************************************************************************)
DWTInit ==
    [level |-> 5, subband_idx |-> 2, step |-> 100,
     bit1_frac |-> Frac(3, 4), bit0_frac |-> Frac(1, 4)]

RECURSIVE HalveUp(_, _)
\* the length of a db1 band after k decomposition steps: ceil(n / 2) each step
HalveUp(n, k) == IF k = 0 THEN n ELSE HalveUp((n + 1) \div 2, k - 1)

\* len(coeffs[subband_idx]) for coeffs = [cA_L, cD_L, ..., cD_1]
DWTSubbandLen(self, audio_data) ==
    HalveUp(audio_data.len, self.level - self.subband_idx + 1)

DWTCapacity(self, audio_data) == DWTSubbandLen(self, audio_data) \div self.step

\* pywt.wavedec: the coefficient at each slot position
wavedec(audio_data) ==
    [k \in 1..Len(audio_data.a) |->
        FMul(Frac(2, 1), FSub(audio_data.a[k], audio_data.b[k]))]

\* the slot of bit i in embed: idx = i * self.step
DWTEmbedSlot(self, i) == i * self.step

\* the slot of bit i in extract
DWTExtractSlot(self, i) == i * self.step

\* variant: base = np.trunc(target_subband[idx]), rounding toward zero
DWTSetFractionTrunc(self, value, bit) ==
    LET base == IF value.n >= 0 THEN Frac(value.n \div value.d, 1)
                ELSE Frac(0 - ((0 - value.n) \div value.d), 1)
    IN  FAdd(base, IF bit = 1 THEN self.bit1_frac ELSE self.bit0_frac)

\* base = np.floor(target_subband[idx]); target_subband[idx] = base + fraction
DWTSetFraction(self, value, bit) ==
    FAdd(FFloor(value), IF bit = 1 THEN self.bit1_frac ELSE self.bit0_frac)

\* the embedding loop: subband position i*step receives bit i; the loop
\* leaves when i*step >= len(target_subband)
DWTWrite(self, audio_data, target_subband, binary_message) ==
    [k \in 1..Len(target_subband) |->
        IF k <= Len(binary_message)
           /\ ~(DWTEmbedSlot(self, k - 1) >= DWTSubbandLen(self, audio_data))
        THEN DWTSetFraction(self, target_subband[k], binary_message[k])
        ELSE target_subband[k]]

\* the lengths of coeffs = [cA_L, cD_L, ..., cD_1] as pywt.wavedec returns
\* them for db1
WavedecLens(n, level) ==
    <<HalveUp(n, level)>> \o [j \in 1..level |-> HalveUp(n, level - j + 1)]

RECURSIVE WaverecFrom(_, _, _)
\* pywt.waverec: the approximation is cut by one sample when it is one longer
\* than the next detail band, and each idwt of db1 doubles the length
WaverecFrom(a, lens, j) ==
    IF j > Len(lens) THEN a
    ELSE LET d == lens[j]
             a2 == IF a = d + 1 THEN a - 1 ELSE a
         IN  WaverecFrom(2 * a2, lens, j + 1)

\* len(pywt.waverec(coeffs, 'db1'))
WaverecLen(lens) == WaverecFrom(lens[1], lens, 2)

\* variant: the reconstruction is not cut to the original length
TruncateNone(rec_len, n) == rec_len

\* len(modified_channel[:len(channel_1)])
Truncate(rec_len, n) == Min2(rec_len, n)

\* pywt.waverec, truncated to the original length: the samples under each slot
waverec(self, audio_data, coeffs) ==
    LET mean(k) == FDiv(FAdd(audio_data.a[k], audio_data.b[k]), Frac(2, 1))
        quarter(k) == FDiv(coeffs[k], Frac(4, 1))
        a2 == [k \in 1..Len(coeffs) |-> FAdd(mean(k), quarter(k))]
        b2 == [k \in 1..Len(coeffs) |-> FSub(mean(k), quarter(k))]
    IN  [audio_data EXCEPT
            !.len = Truncate(WaverecLen(WavedecLens(audio_data.len, self.level)), audio_data.len),
            !.c = coeffs, !.a = a2, !.b = b2,
            !.pk0 = FMax(audio_data.rest, FMax(FSeqMaxAbs(a2), FSeqMaxAbs(b2)))]

\* if len(binary_message) > len(target_subband) // self.step: raise ValueError
DWTTooLarge(binary_message, slots) == Len(binary_message) > slots

DWTEmbed(self, audio_data, message) ==
    LET binary_message == text_to_binary(message) \o END_MARKER
        target_subband == wavedec(audio_data)
    IN  IF DWTTooLarge(binary_message, DWTSubbandLen(self, audio_data) \div self.step)
        THEN [exc |-> "ValueError", orig |-> AfterCopy(audio_data, audio_data), modified |-> NoAudio,
              saved |-> NoAudio, slots |-> <<>>, broke |-> FALSE,
              bins |-> <<>>, mirrors |-> <<>>]
        ELSE LET modified_channel ==
                     waverec(self, audio_data,
                             DWTWrite(self, audio_data, target_subband, binary_message))
                 modified_audio == WithChannel0(audio_data, modified_channel)
                 written == Cardinality({k \in 1..Len(binary_message) :
                                           DWTEmbedSlot(self, k - 1) < DWTSubbandLen(self, audio_data)})
             IN  [exc |-> "none", orig |-> AfterCopy(audio_data, modified_audio),
                  modified |-> modified_audio,
                  saved |-> save_audio(modified_audio),
                  slots |-> [k \in 1..written |-> DWTEmbedSlot(self, k - 1)],
                  broke |-> written < Len(binary_message),
                  bins |-> <<>>, mirrors |-> <<>>]

\* frac_part = value - np.floor(value); '1' if frac_part >= 0.5 else '0'
DWTBit(value) == IF FGe(FSub(value, FFloor(value)), Frac(1, 2)) THEN 1 ELSE 0

\* the bit read at each slot
DWTSlotBits(self, audio_data) ==
    LET target_subband == wavedec(audio_data)
    IN  [k \in 1..DWTCapacity(self, audio_data) |-> DWTBit(target_subband[k])]

DWTExtract(self, audio_data) ==
    LET r == Scan(DWTSlotBits(self, audio_data))
        slots == [k \in 1..(r.last + 1) |-> DWTExtractSlot(self, k - 1)]
    IN  IF ~(Len(r.bits) > 0)
        THEN [exc |-> "none", value |-> NoMessage, scan |-> r, slots |-> slots]
        ELSE IF BinaryToTextRaises(r.bits)
             THEN [exc |-> "none", value |-> DecodeError, scan |-> r, slots |-> slots]
             ELSE [exc |-> "none", value |-> Text(binary_to_text(r.bits)), scan |-> r,
                   slots |-> slots]

(***************************************************************************)
(* The carriers: audio files as the reader returns them, samples within    *)
(* [-1, 1].  One file per strategy and index; the lengths are chosen       *)
(* around the capacities 0, 15, 16, 24 and 32 of the frames of Messages.   *)
(***************************************************************************)
Methods == {"DFT", "DCT", "DWT"}

Paths == {"in", "out"}

\* the indices of the carriers
Carriers == 1..6

\* texts: "", "A", "Hi", U+00FF U+00FE (its bits are the marker), U+012C
Messages == {<<>>, <<65>>, <<72, 105>>, <<255, 254>>, <<300>>}

DFTCarrierLen(k) ==
    CASE k = 1 -> 4064      \* capacity 16
      [] k = 2 -> 4099      \* capacity 24
      [] k = 3 -> 4128      \* capacity 32
      [] k = 4 -> 4060      \* capacity 15
      [] k = 5 -> 1000      \* shorter than start_idx
      [] OTHER -> 4096      \* capacity 24

\* raw bin magnitudes at the slot bins
DFTCarrierBin(k, i) ==
    CASE k = 1 -> FZero
      [] k = 2 -> (CASE i % 3 = 0 -> Frac(1, 200) [] i % 3 = 1 -> Frac(1, 50) [] OTHER -> Frac(1, 1000))
      [] k = 3 -> (IF i % 2 = 0 THEN Frac(3, 1) ELSE Frac(1, 400))
      [] OTHER -> Frac(1, 100)

DFTCarrier(k) ==
    LET len == DFTCarrierLen(k)
        cap == Max2(0, FloorDiv((len \div 2) - 2000, 2))
        c == [i \in 1..cap |-> DFTCarrierBin(k, i)]
    IN  CASE k = 1 -> Audio(len, 1, c, FZero, FZero, FOne, FZero, <<>>, <<>>, FZero)
          [] k = 2 -> Audio(len, 1, c, Frac(1, 2), FZero, FOne, Frac(50, 1), <<>>, <<>>, FZero)
          [] k = 3 -> Audio(len, 2, c, FOne, FOne, Frac(5, 4), Frac(200, 1), <<>>, <<>>, FZero)
          [] k = 4 -> Audio(len, 1, c, FOne, FZero, FOne, Frac(80, 1), <<>>, <<>>, FZero)
          [] k = 5 -> Audio(len, 2, c, Frac(3, 4), Frac(1, 2), FOne, Frac(30, 1), <<>>, <<>>, FZero)
          [] OTHER -> Audio(len, 1, c, FOne, FZero, Frac(5, 2), Frac(64, 1), <<>>, <<>>, FZero)

DCTCarrierLen(k) ==
    CASE k = 1 -> 16384     \* 16 blocks
      [] k = 2 -> 25576     \* 24 blocks and 1000 samples
      [] k = 3 -> 32768     \* 32 blocks
      [] k = 4 -> 16383     \* 15 blocks and 1023 samples
      [] k = 5 -> 500       \* no full block
      [] OTHER -> 24576     \* 24 blocks

DCTCarrierCoef(k, i) ==
    CASE k = 1 -> FZero
      [] k = 2 -> (CASE i % 3 = 0 -> FZero [] i % 3 = 1 -> Frac(3, 100) [] OTHER -> Frac(-1, 50))
      [] k = 3 -> (IF i % 2 = 0 THEN Frac(2, 1) ELSE Frac(-5, 2))
      [] OTHER -> Frac(1, 4)

DCTCarrier(k) ==
    LET len == DCTCarrierLen(k)
        c == [i \in 1..(len \div 1024) |-> DCTCarrierCoef(k, i)]
    IN  CASE k = 1 -> Audio(len, 1, c, FZero, FZero, Frac(1, 200), FZero, <<>>, <<>>, FZero)
          [] k = 2 -> Audio(len, 1, c, Frac(1, 2), FZero, Frac(1, 2), FZero, <<>>, <<>>, Frac(1, 4))
          [] k = 3 -> Audio(len, 2, c, FOne, FOne, Frac(101, 100), FZero, <<>>, <<>>, FZero)
          [] k = 4 -> Audio(len, 1, c, FOne, FZero, FOne, FZero, <<>>, <<>>, Frac(-1, 2))
          [] k = 5 -> Audio(len, 2, c, Frac(3, 4), Frac(1, 2), Frac(3, 4), FZero, <<>>, <<>>, Frac(3, 4))
          [] OTHER -> Audio(len, 1, c, FOne, FZero, Frac(5, 4), FZero, <<>>, <<>>, FZero)

DWTCarrierLen(k) ==
    CASE k = 1 -> 25600     \* subband 1600, capacity 16
      [] k = 2 -> 38405     \* subband 2401, capacity 24
      [] k = 3 -> 51200     \* subband 3200, capacity 32
      [] k = 4 -> 25584     \* subband 1599, capacity 15
      [] k = 5 -> 100       \* subband 7, capacity 0
      [] OTHER -> 38400     \* subband 2400, capacity 24

\* the sample values under slot i: <<first half, second half>>
DWTCarrierHalves(k, i) ==
    CASE k = 1 -> <<FZero, FZero>>
      [] k = 2 -> (CASE i % 3 = 0 -> <<Frac(1, 4), Frac(-1, 8)>>
                     [] i % 3 = 1 -> <<Frac(-1, 2), Frac(1, 4)>>
                     [] OTHER -> <<Frac(1, 10), Frac(1, 10)>>)
      [] k = 3 -> (IF i % 2 = 0 THEN <<FOne, Frac(7, 8)>> ELSE <<FOne, Frac(-3, 4)>>)
      [] OTHER -> (IF i % 2 = 0 THEN <<Frac(-1, 1), Frac(7, 8)>> ELSE <<Frac(1, 8), Frac(-1, 4)>>)

DWTCarrier(k) ==
    LET len == DWTCarrierLen(k)
        cap == HalveUp(len, 4) \div 100
        a == [i \in 1..cap |-> DWTCarrierHalves(k, i)[1]]
        b == [i \in 1..cap |-> DWTCarrierHalves(k, i)[2]]
        c == [i \in 1..cap |-> FMul(Frac(2, 1), FSub(a[i], b[i]))]
        rest == CASE k = 1 -> FZero [] k = 2 -> Frac(1, 2) [] k = 5 -> Frac(3, 4) [] OTHER -> FOne
        pk1 == IF k \in {3, 5} THEN Frac(1, 2) ELSE FZero
        pk0 == FMax(rest, FMax(FSeqMaxAbs(a), FSeqMaxAbs(b)))
    IN  Audio(len, IF k \in {3, 5} THEN 2 ELSE 1, c, pk0, pk1, FZero, FZero, a, b, rest)

Carrier(m, k) ==
    CASE m = "DFT" -> DFTCarrier(k)
      [] m = "DCT" -> DCTCarrier(k)
      [] OTHER -> DWTCarrier(k)

(***************************************************************************)
(* Dispatch on the strategy.                                               *)
(***************************************************************************)
EmbedOf(m, self, audio_data, message) ==
    CASE m = "DFT" -> DFTEmbed(self, audio_data, message)
      [] m = "DCT" -> DCTEmbed(self, audio_data, message)
      [] OTHER -> DWTEmbed(self, audio_data, message)

ExtractOf(m, self, audio_data) ==
    CASE m = "DFT" -> DFTExtract(self, audio_data)
      [] m = "DCT" -> DCTExtract(self, audio_data)
      [] OTHER -> DWTExtract(self, audio_data)

Framed(message) == text_to_binary(message) \o END_MARKER

(***************************************************************************)
(* State: one session of one strategy object on its files.                 *)
(*   use    the strategy in use ("DFT", "DCT" or "DWT")                    *)
(*   fs     the audio files: path -> audio or NoAudio                      *)
(*   obj    the strategy object (its attributes)                           *)
(*   ret    the outcome of the last call (slots: the slots it wrote or     *)
(*          read, in order; broke: the embedding loop left through its     *)
(*          bounds test; bins: the bins a DFT embed wrote; mirrors: the    *)
(*          indices its conjugates were written to)                        *)
(*   emb    the last embed that wrote "out": its message, its source and   *)
(*          the number of embeds the content of "out" has gone through     *)
(*   saves  number of save_audio calls so far                              *)
(*   log    the embed calls so far, in order: inputs and outputs           *)
(*   nops   number of calls so far                                         *)
(* State of the codec runs (MessageProcessor applied to a bit string):     *)
(*   cbits  the bit string;  ctext  the decoded text;  cpc  "start"/"done" *)
(*   etext  the text handed to text_to_binary;  ebits  its result;         *)
(*   eexc   the exception text_to_binary left with ("none" when it         *)
(*          returned)                                                      *)
(*   eframe the result of prepare_message(etext);  escan  the result of    *)
(*          the extraction loop on the bits of eframe;  eback  the text    *)
(*          binary_to_text gives back for ebits                            *)
(*   borig, bext  the original and the extracted message handed to         *)
(*          calculate_ber;  bber  its result                               *)
(*   mbits  the bit string searched for the marker;  mscan  the result of  *)
(*          the extraction loop on it;  mcut  the bits that                *)
(*          process_extracted_binary keeps of it;  mtext  the text that    *)
(*          process_extracted_binary returns                               *)
(* State of the concurrent callers of one strategy object:                 *)
(*   tjob   the call of each caller: operation, carrier and message        *)
(*   tpc    where each caller is in its call: "idle", "read" (the file     *)
(*          is read), "computed" (the body has run), "done" (returned)     *)
(*   tbuf   the buffer each caller read                                    *)
(*   tres   what each call produced, and whether the other caller was      *)
(*          inside a call while the body ran                               *)
(*   tfs    the files of each caller                                       *)
(***************************************************************************)
VARIABLES use, fs, obj, ret, emb, saves, log, nops, cbits, ctext, cpc,
          etext, ebits, eexc, mbits, mscan, mcut, mtext,
          tjob, tpc, tbuf, tres, tfs,
          eframe, escan, eback, borig, bext, bber

vars == <<use, fs, obj, ret, emb, saves, log, nops, cbits, ctext, cpc,
          etext, ebits, eexc, mbits, mscan, mcut, mtext,
          tjob, tpc, tbuf, tres, tfs,
          eframe, escan, eback, borig, bext, bber>>

concVars == <<tjob, tpc, tbuf, tres, tfs>>

sessionVars == <<use, fs, obj, ret, emb, saves, log, nops>>

decVars == <<cbits, ctext>>

encVars == <<etext, ebits, eexc, eframe, escan, eback>>

markVars == <<mbits, mscan, mcut, mtext>>

berVars == <<borig, bext, bber>>

codecVars == <<cpc, decVars, encVars, markVars, berVars>>

NoScan == [bits |-> <<>>, raw |-> <<>>, last |-> -1, found |-> FALSE]

NoRet ==
    [op |-> "none", src |-> "none", msg |-> <<>>, exc |-> "none",
     input |-> NoAudio, orig |-> NoAudio, modified |-> NoAudio,
     value |-> NoMessage, scan |-> NoScan, slots |-> <<>>, broke |-> FALSE,
     bins |-> <<>>, mirrors |-> <<>>]

NoEmb == [valid |-> FALSE, msg |-> <<>>, src |-> "none", gen |-> 0, slots |-> <<>>]

StrategyInit(m) == CASE m = "DFT" -> DFTInit [] m = "DCT" -> DCTInit [] OTHER -> DWTInit

SessionInit(m, k) ==
    /\ use = m
    /\ fs = [p \in Paths |-> IF p = "in" THEN Carrier(m, k) ELSE NoAudio]
    /\ obj = StrategyInit(m)
    /\ ret = NoRet
    /\ emb = NoEmb
    /\ saves = 0
    /\ log = <<>>
    /\ nops = 0

\* the results of the codec runs before any of them ran
CodecBlank ==
    /\ ctext = <<>>
    /\ ebits = <<>> /\ eexc = "none" /\ eframe = <<>> /\ escan = NoScan /\ eback = <<>>
    /\ mscan = NoScan /\ mcut = <<>> /\ mtext = <<>>
    /\ bber = FZero

CodecIdle ==
    /\ cpc = "idle"
    /\ cbits = <<>> /\ etext = <<>> /\ mbits = <<>> /\ borig = <<>> /\ bext = None
    /\ CodecBlank

\* the callers of the concurrent runs
Threads == {1, 2}

NoRes == [exc |-> "none", value |-> NoMessage, modified |-> NoAudio, saved |-> NoAudio]

ConcIdle ==
    /\ tjob = [t \in Threads |-> [op |-> "none", k |-> 0, msg |-> <<>>]]
    /\ tpc = [t \in Threads |-> "off"]
    /\ tbuf = [t \in Threads |-> NoAudio]
    /\ tres = [t \in Threads |-> [res |-> NoRes, mid |-> FALSE]]
    /\ tfs = [t \in Threads |-> [p \in Paths |-> NoAudio]]

Init ==
    /\ \E m \in Methods, k \in Carriers : SessionInit(m, k)
    /\ CodecIdle
    /\ ConcIdle

\* strategy.embed(audio_path, message, output_path) with output_path = "out"
Embed(src, message) ==
    /\ nops < MaxOps
    /\ fs[src] # NoAudio
    /\ src = "out" => emb.gen < MaxGen
    /\ LET audio_data == fs[src]
           r == EmbedOf(use, obj, audio_data, message)
       IN  /\ fs' = IF r.saved # NoAudio THEN [fs EXCEPT !["out"] = r.saved] ELSE fs
           /\ saves' = IF r.saved # NoAudio THEN saves + 1 ELSE saves
           /\ ret' = [NoRet EXCEPT !.op = "embed", !.src = src, !.msg = message,
                                   !.exc = r.exc, !.input = audio_data, !.orig = r.orig,
                                   !.modified = r.modified, !.slots = r.slots,
                                   !.broke = r.broke, !.bins = r.bins,
                                   !.mirrors = r.mirrors]
           /\ emb' = IF r.exc = "none"
                     THEN [valid |-> TRUE, msg |-> message, src |-> src,
                           gen |-> IF src = "in" THEN 1 ELSE emb.gen + 1,
                           slots |-> r.slots]
                     ELSE emb
           /\ log' = Append(log, [input |-> audio_data, msg |-> message, exc |-> r.exc,
                                  modified |-> r.modified, saved |-> r.saved])
    /\ obj' = SelfAfterCall(obj, "embed")
    /\ nops' = nops + 1
    /\ UNCHANGED use
    /\ UNCHANGED <<codecVars, concVars>>

\* strategy.extract(audio_path)
Extract(src) ==
    /\ nops < MaxOps
    /\ fs[src] # NoAudio
    /\ LET audio_data == fs[src]
           r == ExtractOf(use, obj, audio_data)
       IN  ret' = [NoRet EXCEPT !.op = "extract", !.src = src, !.exc = r.exc,
                                !.input = audio_data, !.orig = audio_data,
                                !.value = r.value, !.scan = r.scan, !.slots = r.slots]
    /\ obj' = SelfAfterCall(obj, "extract")
    /\ nops' = nops + 1
    /\ UNCHANGED <<use, fs, emb, saves, log>>
    /\ UNCHANGED <<codecVars, concVars>>

Next ==
    \/ \E src \in Paths, message \in Messages : Embed(src, message)
    \/ \E src \in Paths : Extract(src)

Spec == Init /\ [][Next]_vars

(***************************************************************************)
(* The codec runs: binary_to_text applied to every bit string of at most   *)
(* MaxBits bits.                                                           *)
(***************************************************************************)
RECURSIVE BitStrings(_)
BitStrings(n) ==
    IF n = 0 THEN {<<>>}
    ELSE LET shorter == BitStrings(n - 1)
         IN  shorter \cup {Append(b, x) : b \in {s \in shorter : Len(s) = n - 1}, x \in {0, 1}}

\* the code points of the texts: NUL, 'A', DEL, U+00FE, U+00FF, U+0100, U+012C,
\* U+042F
CodePoints == {0, 65, 127, 254, 255, 256, 300, 1071}

RECURSIVE TextsOver(_)
TextsOver(n) ==
    IF n = 0 THEN {<<>>}
    ELSE LET shorter == TextsOver(n - 1)
         IN  shorter \cup {Append(t, c) : t \in {s \in shorter : Len(s) = n - 1}, c \in CodePoints}

\* the texts handed to the codec, among them DEL U+00FF NUL, whose bits hold
\* the marker from the second bit on
Texts == TextsOver(MaxText) \cup {<<127, 255, 0>>}

\* bit strings with no, one or two markers and up to MaxPad bits before and
\* after the first of them
MarkerInputs ==
    {p \o x \o q \o y : p \in BitStrings(MaxPad), q \in BitStrings(MaxPad),
                        x \in {<<>>, END_MARKER}, y \in {<<>>, END_MARKER}}

RECURSIVE BerTextsOver(_)
\* the messages handed to calculate_ber: texts over '0', '1' and 'A'
BerTextsOver(n) ==
    IF n = 0 THEN {<<>>}
    ELSE LET shorter == BerTextsOver(n - 1)
         IN  shorter \cup {Append(t, c) : t \in {s \in shorter : Len(s) = n - 1}, c \in {48, 49, 65}}

\* the extracted messages handed to calculate_ber: None, the string that
\* extract returns for an empty bit string, or a text
BerExtracted == {None, NoMessage} \cup {Text(t) : t \in BerTextsOver(MaxText)}

CodecInit ==
    /\ SessionInit("DCT", 5)
    /\ \/ cbits \in BitStrings(MaxBits) /\ etext = <<>> /\ mbits = <<>>
          /\ borig = <<>> /\ bext = None
       \/ cbits = <<>> /\ etext \in Texts /\ mbits = <<>>
          /\ borig = <<>> /\ bext = None
       \/ cbits = <<>> /\ etext = <<>> /\ mbits \in MarkerInputs
          /\ borig = <<>> /\ bext = None
       \/ cbits = <<>> /\ etext = <<>> /\ mbits = <<>>
          /\ borig \in BerTextsOver(MaxText) /\ bext \in BerExtracted
    /\ CodecBlank
    /\ cpc = "start"
    /\ ConcIdle

\* MessageProcessor.binary_to_text(cbits)
Decode ==
    /\ cpc = "start"
    /\ ctext' = binary_to_text(cbits)
    /\ cpc' = "done"
    /\ UNCHANGED <<cbits, encVars, markVars, berVars>>
    /\ UNCHANGED <<sessionVars, concVars>>

\* MessageProcessor.text_to_binary(etext)
Encode ==
    /\ cpc = "start"
    /\ IF TextToBinaryRaises(etext)
       THEN ebits' = <<>> /\ eexc' = "TypeError"
       ELSE ebits' = text_to_binary(etext) /\ eexc' = "none"
    /\ cpc' = "encoded"
    /\ UNCHANGED <<etext, eframe, escan, eback>>
    /\ UNCHANGED <<decVars, markVars, berVars>>
    /\ UNCHANGED <<sessionVars, concVars>>

\* MessageProcessor.binary_to_text on the result of text_to_binary
DecodeEncoded ==
    /\ cpc = "encoded" /\ eexc = "none"
    /\ eback' = binary_to_text(ebits)
    /\ cpc' = "roundtrip"
    /\ UNCHANGED <<etext, ebits, eexc, eframe, escan>>
    /\ UNCHANGED <<decVars, markVars, berVars>>
    /\ UNCHANGED <<sessionVars, concVars>>

\* SteganographyBase.prepare_message(etext): the bits of the text, then the
\* marker
Prepare ==
    /\ cpc = "start"
    /\ ebits' = text_to_binary(etext)
    /\ eframe' = prepare_message(etext, TRUE)
    /\ cpc' = "framed"
    /\ UNCHANGED <<etext, eexc, escan, eback>>
    /\ UNCHANGED <<decVars, markVars, berVars>>
    /\ UNCHANGED <<sessionVars, concVars>>

\* the extraction loop of the strategies on the bits of the frame, slot by
\* slot
ScanFrame ==
    /\ cpc = "framed"
    /\ escan' = Scan(eframe)
    /\ cpc' = "framescanned"
    /\ UNCHANGED <<etext, ebits, eexc, eframe, eback>>
    /\ UNCHANGED <<decVars, markVars, berVars>>
    /\ UNCHANGED <<sessionVars, concVars>>

\* the extraction loop of the strategies and process_extracted_binary of
\* SteganographyBase, both on mbits
MarkerSearch ==
    /\ cpc = "start"
    /\ mscan' = Scan(mbits)
    /\ mcut' = CutAtMarker(mbits)
    /\ mtext' = process_extracted_binary(mbits)
    /\ cpc' = "searched"
    /\ UNCHANGED mbits
    /\ UNCHANGED <<decVars, encVars, berVars>>
    /\ UNCHANGED <<sessionVars, concVars>>

\* MessageProcessor.calculate_ber(borig, bext)
Ber ==
    /\ cpc = "start"
    /\ bber' = calculate_ber(borig, bext)
    /\ cpc' = "ber"
    /\ UNCHANGED <<borig, bext>>
    /\ UNCHANGED <<decVars, encVars, markVars>>
    /\ UNCHANGED <<sessionVars, concVars>>

CodecNext ==
    Decode \/ Encode \/ DecodeEncoded \/ Prepare \/ ScanFrame \/ MarkerSearch \/ Ber

CodecSpec == CodecInit /\ [][CodecNext]_vars

(***************************************************************************)
(* Concurrent calls: two callers call embed or extract of the same         *)
(* strategy object, each on files of its own.  A call reads its file,      *)
(* runs its body (the only place where the attributes of self are used)    *)
(* and returns (an embed that did not raise has written its output file).  *)
(* The steps of the two calls interleave in every order.                   *)
(***************************************************************************)
Jobs ==
    [op : {"embed"}, k : {2, 3}, msg : {<<>>, <<65>>}]
        \cup [op : {"extract"}, k : {2, 3}, msg : {<<>>}]

\* what a call of embed or extract on the buffer audio_data produces
JobResult(self, audio_data, job) ==
    IF job.op = "embed"
    THEN LET r == EmbedOf(use, self, audio_data, job.msg)
         IN  [exc |-> r.exc, value |-> NoMessage, modified |-> r.modified, saved |-> r.saved]
    ELSE LET r == ExtractOf(use, self, audio_data)
         IN  [exc |-> r.exc, value |-> r.value, modified |-> NoAudio, saved |-> NoAudio]

ConcInit ==
    /\ \E m \in Methods : SessionInit(m, 5)
    /\ CodecIdle
    /\ tjob \in [Threads -> Jobs]
    /\ tpc = [t \in Threads |-> "idle"]
    /\ tbuf = [t \in Threads |-> NoAudio]
    /\ tres = [t \in Threads |-> [res |-> NoRes, mid |-> FALSE]]
    /\ tfs = [t \in Threads |->
                [p \in Paths |-> IF p = "in" THEN Carrier(use, tjob[t].k) ELSE NoAudio]]

\* sample_rate, audio_data = self.audio_reader.read_audio(audio_path)
CallRead(t) ==
    /\ tpc[t] = "idle"
    /\ tbuf' = [tbuf EXCEPT ![t] = tfs[t]["in"]]
    /\ tpc' = [tpc EXCEPT ![t] = "read"]
    /\ UNCHANGED <<tjob, tres, tfs, obj>>
    /\ UNCHANGED <<use, fs, ret, emb, saves, log, nops, codecVars>>

\* the body of embed or extract, up to save_audio or the return
CallCompute(t) ==
    /\ tpc[t] = "read"
    /\ tres' = [tres EXCEPT ![t] =
                   [res |-> JobResult(obj, tbuf[t], tjob[t]),
                    mid |-> \E u \in Threads \ {t} : tpc[u] \in {"read", "computed"}]]
    /\ obj' = SelfAfterCall(obj, tjob[t].op)
    /\ tpc' = [tpc EXCEPT ![t] = "computed"]
    /\ UNCHANGED <<tjob, tbuf, tfs>>
    /\ UNCHANGED <<use, fs, ret, emb, saves, log, nops, codecVars>>

\* self.audio_reader.save_audio(output_path, ..) of an embed, and the return
CallReturn(t) ==
    /\ tpc[t] = "computed"
    /\ tfs' = IF tres[t].res.saved # NoAudio
              THEN [tfs EXCEPT ![t]["out"] = tres[t].res.saved]
              ELSE tfs
    /\ tpc' = [tpc EXCEPT ![t] = "done"]
    /\ UNCHANGED <<tjob, tbuf, tres, obj>>
    /\ UNCHANGED <<use, fs, ret, emb, saves, log, nops, codecVars>>

ConcNext == \E t \in Threads : CallRead(t) \/ CallCompute(t) \/ CallReturn(t)

ConcSpec == ConcInit /\ [][ConcNext]_vars

(***************************************************************************)
(* Properties                                                              *)
(***************************************************************************)
ContainsMarker(bits) ==
    \E i \in 1..(Len(bits) - Len(END_MARKER) + 1) :
        SubSeq(bits, i, i + Len(END_MARKER) - 1) = END_MARKER

\* the last call extracted from the file written by the last successful embed
ExtractedStego == ret.op = "extract" /\ ret.src = "out" /\ emb.valid

\* C1: round trip - extract of the file written by a successful embed of the
\* text M (frame within capacity) returns exactly M, for each strategy.
C1_RoundTrip ==
    ExtractedStego => (ret.exc = "none" /\ ret.value = Text(emb.msg))

\* the capacity as C2 words it, from the length of the channel
C2_Capacity(audio_data) ==
    CASE use = "DFT" -> ((audio_data.len \div 2) - 2000) \div 2
      [] use = "DCT" -> audio_data.len \div 1024
      [] OTHER -> HalveUp(audio_data.len, 4) \div 100

\* C2: capacity boundary - embed succeeds when the framed length equals the
\* capacity and raises the capacity error when it equals capacity + 1.
C2_CapacityBoundary ==
    ret.op = "embed" =>
        LET n == Len(Framed(ret.msg))
            cap == C2_Capacity(ret.input)
        IN  /\ n = cap => ret.exc = "none"
            /\ n = cap + 1 => ret.exc = "ValueError"

\* a session in which a frame of exactly the capacity was embedded and the
\* last call refused a frame one bit longer
C2_Witness ==
    /\ ret.op = "embed" /\ ret.exc = "ValueError"
    /\ Len(Framed(ret.msg)) = C2_Capacity(ret.input) + 1
    /\ \E i \in DOMAIN log :
          log[i].exc = "none" /\ Len(Framed(log[i].msg)) = C2_Capacity(log[i].input)

\* C3: embed is all-or-nothing - when embed fails with the capacity error no
\* modified buffer exists, the buffer read from the input holds the samples
\* it was read with, no file is written and save_audio is not called.
C3_AllOrNothing ==
    [][(ret'.op = "embed" /\ ret'.exc = "ValueError") =>
          /\ ret'.modified = NoAudio
          /\ ret'.orig = ret'.input
          /\ fs' = fs
          /\ saves' = saves]_vars

\* a refused DFT embed on a channel that the normalisation before the
\* capacity test rescales
C3_Witness ==
    /\ ret.op = "embed" /\ ret.exc = "ValueError" /\ use = "DFT"
    /\ ret.input.pk0 # FOne /\ ret.input.pk0 # FZero
    /\ fs["out"] # NoAudio

\* C4: marker determinism - when the bits of the message never contain the
\* marker, extraction of the embedded channel stops exactly at slot
\* len(message bits) + 15 and the bits before the marker are the message bits.
C4_MarkerDeterminism ==
    (ExtractedStego /\ ~ContainsMarker(text_to_binary(emb.msg))) =>
        /\ ret.scan.found
        /\ ret.scan.last = Len(text_to_binary(emb.msg)) + 15
        /\ ret.scan.bits = text_to_binary(emb.msg)

\* C5: missing marker - when every slot was scanned without the bits ever
\* ending with the marker, extract returns the failure value, not a text.
C5_MissingMarker ==
    (ret.op = "extract" /\ ~ret.scan.found) =>
        (ret.exc = "none" /\ ret.value.kind # "text")

\* C6: extract never raises, whatever the length of the channel.
C6_ExtractNeverRaises ==
    ret.op = "extract" => ret.exc = "none"

\* C7: the failure value is distinguishable from a decoded empty message -
\* extract of a channel carrying the empty message returns the empty string,
\* and the failure value is returned only when no marker was found.
C7_EmptyDistinguishable ==
    ret.op = "extract" =>
        /\ (ret.src = "out" /\ emb.valid /\ emb.msg = <<>>) => ret.value = Text(<<>>)
        /\ (ret.exc = "none" /\ ret.value.kind # "text") => ~ret.scan.found

C9_ThresholdBoundary ==
    (ret.op = "extract" /\ use = "DFT" /\ ~ret.input.nan) =>
        \A k \in 1..Len(ret.scan.raw) :
            /\ ret.input.c[k] = Frac(1, 200) => ret.scan.raw[k] = 0
            /\ ret.scan.raw[k] = 1 <=> FGt(ret.input.c[k], Frac(1, 200))

\* a DFT extraction that read a bin lying exactly on the threshold
C9_Witness ==
    /\ ret.op = "extract" /\ use = "DFT" /\ ~ret.input.nan
    /\ \E k \in 1..Len(ret.scan.raw) : ret.input.c[k] = Frac(1, 200)

\* C10: alignment loss - binary_to_text of a bit string whose length is not
\* a multiple of 8 decodes the first 8 * (length div 8) bits and drops the
\* rest; a 10-bit input gives the one character of its first 8 bits.
C10_AlignmentLoss ==
    (cpc = "done" /\ Len(cbits) % 8 # 0) =>
        /\ Len(ctext) = Len(cbits) \div 8
        /\ \A k \in 1..Len(ctext) : ctext[k] = BitsToInt(SubSeq(cbits, 8 * k - 7, 8 * k))

\* a decoded 10-bit string
C10_Witness ==
    cpc = "done" /\ Len(cbits) = 10 /\ Len(ctext) = 1

\* C11: text_to_binary gives every character exactly 8 bits, most significant
\* bit first, in character order; the result has 8 * len(text) bits.
C11_EightBitsPerChar ==
    cpc = "encoded" =>
        /\ Len(ebits) = 8 * Len(etext)
        /\ \A k \in 1..Len(etext) : BitsToInt(SubSeq(ebits, 8 * k - 7, 8 * k)) = etext[k]

\* C12: text_to_binary fails with an encoding error when a character of the
\* text has a code point greater than 255.
C12_EncodingError ==
    (cpc = "encoded" /\ \E k \in 1..Len(etext) : etext[k] > 255) => eexc # "none"

\* C20: marker search equivalence - the streaming scan and the cut at the
\* first occurrence of the marker keep the same message bits, and both keep
\* the whole string when the marker does not occur.
C20_MarkerSearchEquivalence ==
    cpc = "searched" =>
        /\ mscan.bits = mcut
        /\ ~ContainsMarker(mbits) => (mscan.bits = mbits /\ mcut = mbits /\ ~mscan.found)

\* a searched string with two markers and bits before and between them
C20_Witness ==
    /\ cpc = "searched" /\ mscan.found
    /\ Len(mscan.bits) > 0
    /\ Len(mbits) > Len(mscan.bits) + 2 * Len(END_MARKER)

\* the last call was an embed that returned
Embedded == ret.op = "embed" /\ ret.exc = "none"

C14_OriginalNotMutated ==
    ret.op = "embed" =>
        /\ ret.orig = ret.input
        /\ ret.exc = "none" => ret.modified # NoAudio

\* an embed that returned a modified buffer different from the input
C14_Witness ==
    /\ Embedded
    /\ ret.modified # ret.input
    /\ ret.orig # ret.modified

C18_LockStep ==
    ExtractedStego =>
        LET w == emb.slots
            r == ret.slots
            f(i) == CASE use = "DFT" -> 2000 + i * 2
                      [] use = "DCT" -> <<i * 1024, 5>>
                      [] OTHER -> i * 100
        IN  /\ Len(w) = Len(Framed(emb.msg))
            /\ \A i \in 1..Len(w) : w[i] = f(i - 1)
            /\ \A i, j \in 1..Len(w) : i # j => w[i] # w[j]
            /\ \A i \in 1..Len(r) : r[i] = f(i - 1)

\* an extraction that read at least the slots of a marker after an embed
C18_Witness ==
    /\ ExtractedStego /\ ret.exc = "none"
    /\ Len(ret.slots) >= Len(END_MARKER)
    /\ Len(emb.slots) > Len(END_MARKER)

\* C19: wavelet embed returns a channel of exactly the original sample
\* count, odd lengths included: the reconstruction is not shorter than the
\* input and is cut to its length.
C19_LengthPreserved ==
    (Embedded /\ use = "DWT") =>
        /\ WaverecLen(WavedecLens(ret.input.len, 5)) >= ret.input.len
        /\ ret.modified.len = ret.input.len

\* a wavelet embed into a channel of odd length
C19_Witness ==
    Embedded /\ use = "DWT" /\ ret.input.len % 2 = 1

\* the results of the two calls run one after another in the given order on
\* a freshly constructed strategy object
SequentialResults(first, second) ==
    LET self1 == StrategyInit(use)
        self2 == SelfAfterCall(self1, tjob[first].op)
    IN  [t \in Threads |->
            IF t = first THEN JobResult(self1, Carrier(use, tjob[first].k), tjob[first])
            ELSE JobResult(self2, Carrier(use, tjob[second].k), tjob[second])]

C21_MarkerNoSelfOverlap ==
    /\ \A k \in 1..(Len(END_MARKER) - 1) :
           SubSeq(END_MARKER, Len(END_MARKER) - k + 1, Len(END_MARKER)) # SubSeq(END_MARKER, 1, k)
    /\ cpc = "framed" =>
           \A i \in 0..(Len(eframe) - Len(END_MARKER)) :
               (/\ SubSeq(eframe, i + 1, i + Len(END_MARKER)) = END_MARKER
                /\ i + Len(END_MARKER) < Len(eframe))
                   => i + Len(END_MARKER) <= Len(ebits)

\* a framed message that holds the marker twice: in its own bits and appended
C21_Witness ==
    /\ cpc = "framed"
    /\ ContainsMarker(ebits)
    /\ Len(eframe) = Len(ebits) + Len(END_MARKER)

\* C22: codec round trip - binary_to_text(text_to_binary(text)) is the text
\* when every code point is at most 255 and differs from it otherwise.
C22_CodecRoundTrip ==
    cpc = "roundtrip" =>
        /\ (\A k \in 1..Len(etext) : etext[k] <= 255) => eback = etext
        /\ (\E k \in 1..Len(etext) : etext[k] > 255) => eback # etext

\* round trips of a two-character text within 8 bits and of one beyond
C22_Witness ==
    /\ cpc = "roundtrip"
    /\ Len(etext) = 2
    /\ etext[1] = 255 /\ etext[2] > 255
    /\ Len(eback) >= 2 /\ eback[1] = 255

\* C23: the bits of a message of code points below 128 never hold the
\* marker, and the extraction loop returns all of them; the bits of U+00FF
\* U+00FE and of DEL U+00FF NUL hold it, and the loop returns fewer bits.
C23_AsciiNeverTruncated ==
    cpc = "framescanned" =>
        /\ (\A k \in 1..Len(etext) : etext[k] < 128) =>
               (~ContainsMarker(ebits) /\ escan.found /\ escan.bits = ebits)
        /\ etext \in {<<255, 254>>, <<127, 255, 0>>} =>
               (ContainsMarker(ebits) /\ escan.found /\ Len(escan.bits) < Len(ebits))

\* the scan of the frame of DEL U+00FF NUL stopped after one bit of message
C23_Witness ==
    /\ cpc = "framescanned"
    /\ etext = <<127, 255, 0>>
    /\ escan.bits = <<0>>

\* C27: calculate_ber is 0.0 when the extracted message equals a non-empty
\* original, texts of '0' and '1' included, and 1.0 when the extracted
\* message is None or holds the failure string.
C27_BerOfEqualMessages ==
    cpc = "ber" =>
        /\ (borig # <<>> /\ bext = Text(borig)) => bber = FZero
        /\ (bext = None \/ ContainsSentinel(bext)) => bber = FOne

\* C24: once the capacity check of embed has passed, the bounds test inside
\* the embedding loop never fires, in any strategy: every bit of the frame is
\* written and the number of written slots is the length of the frame.
C24_LoopNeverBreaks ==
    Embedded => (~ret.broke /\ Len(ret.slots) = Len(Framed(ret.msg)))

\* an embed of a frame that fills the capacity to the last slot
C24_Witness ==
    /\ Embedded
    /\ Len(Framed(ret.msg)) = C2_Capacity(ret.input)
    /\ Len(ret.slots) > Len(END_MARKER)

\* C25: decodability under the amplitude cap - in every frequency embed the
\* magnitude written for bit 1, min(0.01, 0.1 * peak), is greater than the
\* threshold, the magnitude written for bit 0, min(0.001, 0.1 * peak), is at
\* most the threshold, and each written bin classifies back to its bit.
C25_CapKeepsBitsDecodable ==
    (Embedded /\ use = "DFT") =>
        \A k \in 1..Len(ret.bins) :
            LET bit == Framed(ret.msg)[k]
                bin == ret.bins[k]
            IN  /\ bit = 1 => FGt(bin.amp, Frac(1, 200))
                /\ bit = 0 => ~FGt(bin.amp, Frac(1, 200))
                /\ DFTBinBit(obj, bin) = bit

\* C28: the conjugate of a frequency embed is written at len - idx, which is
\* not idx and is greater than every data bin within the capacity, so no
\* mirror write lands on an embedded bit.
C28_MirrorOffData ==
    (Embedded /\ use = "DFT") =>
        /\ Len(ret.mirrors) = Len(ret.slots)
        /\ \A i \in 1..Len(ret.mirrors) :
               /\ ret.mirrors[i] = ret.input.len - ret.slots[i]
               /\ ret.mirrors[i] # ret.slots[i]
               /\ \A j \in 0..(DFTMaxBits(obj, ret.input) - 1) :
                      ret.mirrors[i] > 2000 + j * 2

\* a frequency embed that filled the capacity of a channel of odd length
C28_Witness ==
    /\ Embedded /\ use = "DFT"
    /\ ret.input.len % 2 = 1
    /\ Len(ret.mirrors) = DFTMaxBits(obj, ret.input)
    /\ Len(ret.mirrors) > Len(END_MARKER)

\* C26: embedding twice, the last message wins - for the DCT and DWT
\* strategies, after embed(M1) and embed(M2) into the output of the first,
\* the bits of M2 holding no marker, extract of the output returns M2.
C26_LastMessageWins ==
    (/\ ExtractedStego
     /\ use \in {"DCT", "DWT"}
     /\ emb.gen >= 2
     /\ ~ContainsMarker(text_to_binary(emb.msg)))
        => (ret.exc = "none" /\ ret.value = Text(emb.msg))
====
